---------------------------- MODULE Spec2Model ----------------------------
(***************************************************************************)
(* Model of bot.py: the message dispatcher (handle_message), the write     *)
(* path (parse_message, add_transaction) and the two aggregations          *)
(* (get_month_stats / send_stats, send_debts) over the "Transactions"      *)
(* worksheet.                                                              *)
(*                                                                         *)
(* Text is modelled as sequences of one-character strings so that strip(), *)
(* lower(), replace(), slicing and float() are computed, not assumed.      *)
(* Cyrillic words of the source are transliterated to Latin letters        *)
(* ("итоги" -> "itogi", "расход" -> "rashod", "долг_выдал" -> "dolg_vydal")*)
(* since the module text is ASCII.                                         *)
(***************************************************************************)
EXTENDS Integers, Sequences, FiniteSets, TLC

(***************************************************************************)
(* Bounds of the model.                                                    *)
(***************************************************************************)
MaxMsgs  == 2      \* messages handled in one behaviour
MaxSheet == 3      \* rows the worksheet may hold
MaxBatch == 3      \* records in one extraction result
MaxRecs  == 2      \* rows of a scan handed to an aggregation (SpecAgg)
MaxQueries == 1    \* queries answered from one scan (SpecAgg)

(***************************************************************************)
(* Characters and the str methods the source uses.                         *)
(***************************************************************************)
UpperLetters ==
  <<"A","B","C","D","E","F","G","H","I","J","K","L","M",
    "N","O","P","Q","R","S","T","U","V","W","X","Y","Z">>

LowerLetters ==
  <<"a","b","c","d","e","f","g","h","i","j","k","l","m",
    "n","o","p","q","r","s","t","u","v","w","x","y","z">>

Digits == <<"0","1","2","3","4","5","6","7","8","9">>

Whitespace == {" ", "\n", "\t"}

\* str.lower() on one character
LowerChar(c) ==
  IF \E i \in 1..Len(UpperLetters) : UpperLetters[i] = c
  THEN LowerLetters[CHOOSE i \in 1..Len(UpperLetters) : UpperLetters[i] = c]
  ELSE c

\* str.lower()
Lower(s) == [i \in 1..Len(s) |-> LowerChar(s[i])]

\* str.strip(): drops leading and trailing whitespace
Strip(s) ==
  LET keep == {i \in 1..Len(s) : s[i] \notin Whitespace}
  IN  IF keep = {} THEN <<>>
      ELSE LET lo == CHOOSE i \in keep : \A j \in keep : i <= j
               hi == CHOOSE i \in keep : \A j \in keep : j <= i
           IN  SubSeq(s, lo, hi)

\* str.replace(c, "") for a single character c
RECURSIVE RemoveChar(_, _)
RemoveChar(s, c) ==
  IF s = <<>> THEN <<>>
  ELSE IF Head(s) = c THEN RemoveChar(Tail(s), c)
       ELSE <<Head(s)>> \o RemoveChar(Tail(s), c)

\* str.replace(a, b) for single characters a, b
ReplaceChar(s, a, b) == [i \in 1..Len(s) |-> IF s[i] = a THEN b ELSE s[i]]

\* s[lo:hi] of Python (0-based, hi exclusive, clipped to the string)
Slice(s, lo, hi) ==
  LET h == IF hi < Len(s) THEN hi ELSE Len(s)
  IN  IF lo >= h THEN <<>> ELSE SubSeq(s, lo + 1, h)

IsDigit(c) == \E i \in 1..Len(Digits) : Digits[i] = c

DigitVal(c) == (CHOOSE i \in 1..Len(Digits) : Digits[i] = c) - 1

\* value of a string of decimal digits
RECURSIVE DigitsVal(_)
DigitsVal(s) ==
  IF s = <<>> THEN 0
  ELSE 10 * DigitsVal(SubSeq(s, 1, Len(s) - 1)) + DigitVal(s[Len(s)])

AllDigits(s) == \A i \in 1..Len(s) : IsDigit(s[i])

(***************************************************************************)
(* Vocabulary of the source (transliterated).                              *)
(***************************************************************************)
W_rashod        == <<"r","a","s","h","o","d">>
W_dohod         == <<"d","o","h","o","d">>
W_dolg          == <<"d","o","l","g">>
W_dolg_vydal    == <<"d","o","l","g","_","v","y","d","a","l">>
W_dolg_poluchil == <<"d","o","l","g","_","p","o","l","u","c","h","i","l">>
W_drugoe        == <<"d","r","u","g","o","e">>
W_eda           == <<"e","d","a">>

\* handle_message: the three keyword lists
StatsKeywords ==
  { <<"i","t","o","g","i">>, <<"i","t","o","g">>,
    <<"s","t","a","t","i","s","t","i","k","a">>,
    <<"o","t","c","h","y","o","t">>, <<"o","t","c","h","e","t">> }

DebtsKeywords == { <<"d","o","l","g","i">>, <<"d","o","l","g">> }

HelpKeywords ==
  { <<"p","o","m","o","s","c","h">>, <<"h","e","l","p">>,
    <<"/","h","e","l","p">>, <<"/","s","t","a","r","t">> }

\* the if-chain with the comparison made on the text as typed, not lowercased
Route_CaseSensitive(t) ==
  LET k == Strip(t)
  IN  IF k \in StatsKeywords THEN "stats"
      ELSE IF k \in DebtsKeywords THEN "debts"
      ELSE IF k \in HelpKeywords THEN "help"
      ELSE "free"

\* handle_message: the if-chain over text.strip().lower()
Route(t) ==
  LET k == Lower(Strip(t))
  IN  IF k \in StatsKeywords THEN "stats"
      ELSE IF k \in DebtsKeywords THEN "debts"
      ELSE IF k \in HelpKeywords THEN "help"
      ELSE "free"


(***************************************************************************)
(* Numbers.  A Python float is modelled in fixed point: an integer count   *)
(* of 1/Scale units (two decimals).                                        *)
(***************************************************************************)
Scale == 100

\* int(x) of a float x: truncation toward zero
Trunc(v) == IF v >= 0 THEN v \div Scale ELSE 0 - ((0 - v) \div Scale)

Exc == [ok |-> FALSE, v |-> 0]

Val(n) == [ok |-> TRUE, v |-> n]

\* the digits after the decimal point, as 1/Scale units
FracVal(f) ==
  IF Len(f) = 0 THEN 0
  ELSE IF Len(f) = 1 THEN 10 * DigitVal(f[1])
  ELSE DigitsVal(SubSeq(f, 1, 2))

\* float(s) on an unsigned numeral: digits, at most one ".", one digit at least
UFloat(s) ==
  LET dots == {i \in 1..Len(s) : s[i] = "."}
  IN  IF Cardinality(dots) > 1 THEN Exc
      ELSE LET d  == IF dots = {} THEN Len(s) + 1 ELSE CHOOSE i \in dots : TRUE
               ip == SubSeq(s, 1, d - 1)
               fp == SubSeq(s, d + 1, Len(s))
           IN  IF AllDigits(ip) /\ AllDigits(fp) /\ Len(ip) + Len(fp) > 0
               THEN Val(Scale * DigitsVal(ip) + FracVal(fp))
               ELSE Exc

\* float(s): surrounding whitespace, an optional sign, a numeral; raises
\* ValueError otherwise (exponents, "inf", "nan" and "_" lie outside the
\* alphabet of the model)
Float(s) ==
  LET t == Strip(s)
  IN  IF t = <<>> THEN Exc
      ELSE IF Head(t) = "-"
           THEN LET u == UFloat(Tail(t)) IN IF u.ok THEN Val(0 - u.v) ELSE Exc
      ELSE IF Head(t) = "+" THEN UFloat(Tail(t))
      ELSE UFloat(t)

\* float(str(cell).replace(" ", "").replace(",", ".") or 0)
ParseAmount(cell) ==
  LET s == ReplaceChar(RemoveChar(cell, " "), ",", ".")
  IN  IF s = <<>> THEN Val(0) ELSE Float(s)

(***************************************************************************)
(* The clock and strftime.                                                 *)
(***************************************************************************)
MonthNames ==
  <<"January", "February", "March", "April", "May", "June", "July",
    "August", "September", "October", "November", "December">>

Pad2(n) == <<Digits[(n \div 10) + 1], Digits[(n % 10) + 1]>>

Pad4(n) == Pad2(n \div 100) \o Pad2(n % 100)

\* now.strftime("%d.%m.%Y %H:%M")
FmtTimestamp(t) ==
  Pad2(t.d) \o <<".">> \o Pad2(t.m) \o <<".">> \o Pad4(t.y) \o <<" ">>
    \o Pad2(t.H) \o <<":">> \o Pad2(t.M)

\* now.strftime("%m.%Y")
FmtMonth(t) == Pad2(t.m) \o <<".">> \o Pad4(t.y)

\* now.strftime("%B %Y")
FmtLabel(t) == <<MonthNames[t.m], t.y>>

(***************************************************************************)
(* Replies.  Every reply has the same shape: its kind, its item lines      *)
(* <<tag, text, integer>>, its integer totals and its period label.        *)
(***************************************************************************)
Reply(kind, lines, nums, label) ==
  [kind |-> kind, lines |-> lines, nums |-> nums, label |-> label]

PlainReply(kind) == Reply(kind, <<>>, <<>>, <<>>)

(***************************************************************************)
(* get_month_stats: the fold over the scanned records.                     *)
(***************************************************************************)
\* categories[cat] = categories.get(cat, 0) + amount, on a dict kept in
\* insertion order: a sequence of [k, v] entries
DictAdd(d, k, a) ==
  IF \E i \in 1..Len(d) : d[i].k = k
  THEN [i \in 1..Len(d) |-> IF d[i].k = k THEN [k |-> k, v |-> d[i].v + a] ELSE d[i]]
  ELSE Append(d, [k |-> k, v |-> a])

StatsZero ==
  [expense |-> 0, income |-> 0, categories |-> <<>>,
   debts_given |-> 0, debts_received |-> 0]

\* the tests on the kind inside the loop body, once the amount is parsed
StatsAdd(acc, t, cat, amount) ==
  IF t = W_rashod
  THEN [acc EXCEPT !.expense = @ + amount,
                   !.categories = DictAdd(@, cat, amount)]
  ELSE IF t = W_dohod THEN [acc EXCEPT !.income = @ + amount]
  ELSE IF t = W_dolg
       THEN IF cat = W_dolg_vydal THEN [acc EXCEPT !.debts_given = @ + amount]
            ELSE IF cat = W_dolg_poluchil
                 THEN [acc EXCEPT !.debts_received = @ + amount]
                 ELSE acc
  ELSE acc

\* the date test with the slice taken one character early
InMonth_SliceOff(date_str, current_month) ==
  Len(date_str) >= 7 /\ Slice(date_str, 2, 9) = current_month

\* the date test of the loop body
InMonth(date_str, current_month) ==
  Len(date_str) >= 7 /\ Slice(date_str, 3, 10) = current_month

\* one iteration of the loop: try ... except: continue
StatsStep(acc, r, current_month) ==
  IF InMonth(r.Date, current_month)
  THEN LET amount == ParseAmount(r.Amount)
       IN  IF amount.ok
           THEN StatsAdd(acc, Lower(r.Type), r.Category, amount.v)
           ELSE acc
  ELSE acc

RECURSIVE StatsFold(_, _, _)
StatsFold(acc, records, current_month) ==
  IF records = <<>> THEN acc
  ELSE StatsFold(StatsStep(acc, Head(records), current_month),
                 Tail(records), current_month)

\* get_month_stats() on the scan `records` at time `now`
get_month_stats(records, now) ==
  [stats |-> StatsFold(StatsZero, records, FmtMonth(now)),
   month |-> FmtLabel(now)]

TopCats == 7

\* sorted(items, key=value, reverse=True): descending and stable
SortedDesc(d) ==
  LET rank(i) ==
        1 + Cardinality({j \in 1..Len(d) :
                           d[j].v > d[i].v \/ (d[j].v = d[i].v /\ j < i)})
  IN  [p \in 1..Len(d) |-> d[CHOOSE i \in 1..Len(d) : rank(i) = p]]

\* send_stats: the message built from the stats
StatsReply(res) ==
  LET s       == res.stats
      sorted  == SortedDesc(s.categories)
      top     == SubSeq(sorted, 1, IF Len(sorted) < TopCats THEN Len(sorted) ELSE TopCats)
      balance == s.income - s.expense
      debts   == IF s.debts_given > 0 \/ s.debts_received > 0
                 THEN <<Trunc(s.debts_given), Trunc(s.debts_received)>>
                 ELSE <<>>
  IN  Reply("stats",
            [i \in 1..Len(top) |-> <<"cat", top[i].k, Trunc(top[i].v)>>],
            <<Trunc(s.income), Trunc(s.expense), Trunc(balance)>> \o debts,
            <<IF balance >= 0 THEN "up" ELSE "down">> \o res.month)

(***************************************************************************)
(* send_debts: the fold over the scanned records and the reply.            *)
(***************************************************************************)
\* one iteration of the loop of send_debts
DebtsStep(debts, r) ==
  LET t      == Lower(r.Type)
      cat    == r.Category
      desc   == r.Description
      p      == ParseAmount(r.Amount)
      amount == IF p.ok THEN p.v ELSE 0
  IN  IF t = W_dolg /\ desc # <<>>
      THEN LET name == Strip(desc)
               d0   == DictAdd(debts, name, 0)
           IN  IF cat = W_dolg_vydal THEN DictAdd(d0, name, amount)
               ELSE IF cat = W_dolg_poluchil THEN DictAdd(d0, name, 0 - amount)
               ELSE d0
      ELSE debts

RECURSIVE DebtsFold(_, _)
DebtsFold(debts, records) ==
  IF records = <<>> THEN debts
  ELSE DebtsFold(DebtsStep(debts, Head(records)), Tail(records))

\* the dict `debts` of send_debts after the loop
DebtLedger(records) == DebtsFold(<<>>, records)

RECURSIVE DebtLines(_)
DebtLines(debts) ==
  IF debts = <<>> THEN <<>>
  ELSE LET e == Head(debts)
       IN  (IF e.v > 0 THEN << <<"owes_you", e.k, Trunc(e.v)>> >>
            ELSE IF e.v < 0 THEN << <<"you_owe", e.k, Trunc(0 - e.v)>> >>
            ELSE <<>>) \o DebtLines(Tail(debts))

\* send_debts: the message built from the dict
DebtsReply(debts) ==
  IF debts = <<>> THEN PlainReply("no_debts")
  ELSE LET lines == DebtLines(debts)
       IN  IF lines # <<>> THEN Reply("debts", lines, <<>>, <<>>)
           ELSE PlainReply("all_settled")

(***************************************************************************)
(* The write path: the objects the extraction service returns, the row     *)
(* add_transaction appends for one of them, and the confirmation message.  *)
(***************************************************************************)
AllKeys == {"tip", "summa", "kategoria", "opisanie"}

\* a JSON object of the extraction result: the keys it has and their values;
\* `num` tells a JSON number from a JSON string in "summa"
Obj(keys, tip, summa, num, kategoria, opisanie) ==
  [keys |-> keys, tip |-> tip, summa |-> summa, num |-> num,
   kategoria |-> kategoria, opisanie |-> opisanie]

\* row.get(key, default)
Get(row, key, default) == IF key \in row.keys THEN row[key] ELSE default

\* the list handed to sheet.append_row for `row` at the timestamp `now`
NewRow(row, now) ==
  [Date        |-> now,
   Type        |-> Get(row, "tip", W_rashod),
   Amount      |-> Get(row, "summa", <<"0">>),
   Category    |-> Get(row, "kategoria", W_drugoe),
   Description |-> Get(row, "opisanie", <<>>)]

\* int(s) of a string: whitespace, an optional sign, digits
IntOfStr(s) ==
  LET t == Strip(s)
      u == IF t # <<>> /\ Head(t) \in {"-", "+"} THEN Tail(t) ELSE t
  IN  IF u # <<>> /\ AllDigits(u)
      THEN Val(IF t # <<>> /\ Head(t) = "-" THEN 0 - DigitsVal(u) ELSE DigitsVal(u))
      ELSE Exc

\* int(r["summa"]): KeyError on a missing key, ValueError on a bad string
IntAmount(r) == IF "summa" \in r.keys THEN IntOfStr(r.summa) ELSE Exc

UpperChar(c) ==
  IF \E i \in 1..Len(LowerLetters) : LowerLetters[i] = c
  THEN UpperLetters[CHOOSE i \in 1..Len(LowerLetters) : LowerLetters[i] = c]
  ELSE c

\* str.capitalize()
Capitalize(s) ==
  [i \in 1..Len(s) |-> IF i = 1 THEN UpperChar(s[i]) ELSE LowerChar(s[i])]

RECURSIVE SumInt(_)
SumInt(items) ==
  IF items = <<>> THEN 0 ELSE IntAmount(Head(items)).v + SumInt(Tail(items))

\* handle_message: the confirmation built after add_transaction returned;
\* ok = FALSE when building it raises (KeyError, ValueError)
Confirmation(items) ==
  IF Len(items) = 1
  THEN LET r == items[1]
       IN  IF AllKeys \subseteq r.keys /\ IntAmount(r).ok
           THEN [ok |-> TRUE,
                 msg |-> Reply("recorded_one",
                               << <<IF r.tip = W_rashod THEN "expense"
                                    ELSE IF r.tip = W_dohod THEN "income"
                                    ELSE "debt",
                                    Capitalize(r.opisanie), IntAmount(r).v>>,
                                  <<"category", r.kategoria, 0>> >>,
                               <<>>, <<>>)]
           ELSE [ok |-> FALSE, msg |-> PlainReply("none")]
  ELSE IF \A j \in 1..Len(items) :
            {"summa", "opisanie"} \subseteq items[j].keys /\ IntAmount(items[j]).ok
       THEN [ok |-> TRUE,
             msg |-> Reply("recorded_many",
                           [j \in 1..Len(items) |->
                              <<"item", Capitalize(items[j].opisanie),
                                IntAmount(items[j]).v>>],
                           <<Len(items), SumInt(items)>>, <<>>)]
       ELSE [ok |-> FALSE, msg |-> PlainReply("none")]

(***************************************************************************)
(* Inputs of the model.                                                    *)
(***************************************************************************)
\* message texts: keywords in several spellings, and free text
Texts ==
  { <<"i","t","o","g","i">>,
    <<" ","O","T","C","H","E","T","\n">>,
    <<"D","o","l","g","i">>,
    <<"/","s","t","a","r","t">>,
    <<"h","e","l","p"," ">>,
    <<"t","a","k","s","i"," ","1","5","0","0","0">>,
    <<"i","t","o","g","i"," ","m","a","y","a">> }

O_moloko ==
  Obj(AllKeys, W_rashod, <<"8","0","0","0">>, TRUE, W_eda,
      <<"m","o","l","o","k","o">>)

\* a non-numeric amount
O_bad == Obj(AllKeys, W_rashod, <<"a","b","c">>, FALSE, W_eda, <<"m","y","a","s","o">>)

\* a negative amount on a debt whose category is not a debt category
O_debt == Obj(AllKeys, W_dolg, <<"-","5">>, TRUE, W_drugoe, <<"A","l","i">>)

\* only the amount: kind, category and description are missing
O_bare == Obj({"summa"}, <<>>, <<"3","0","0","0">>, TRUE, <<>>, <<>>)

Objects == {O_moloko, O_bad, O_debt, O_bare}

RECURSIVE SeqsUpTo(_, _)
SeqsUpTo(S, n) ==
  IF n = 0 THEN {<<>>}
  ELSE LET shorter == SeqsUpTo(S, n - 1)
       IN  shorter \cup {Append(q, x) : q \in {r \in shorter : Len(r) = n - 1}, x \in S}

\* the instants the clock shows; it never runs backwards
Clock ==
  << [d |-> 30, m |-> 11, y |-> 2026, H |-> 9,  M |-> 58],
     [d |-> 1,  m |-> 12, y |-> 2026, H |-> 22, M |-> 0] >>

(***************************************************************************)
(* The bot as a state machine: one message is handled at a time.           *)
(***************************************************************************)
VARIABLES
  sheet,      \* the data rows of the worksheet "Transactions"
  clock,      \* index into Clock of the current instant
  pc,         \* where handle_message stands: "idle" between messages
  authorized, \* whether the last message came from MY_CHAT_ID
  inbound,    \* update.message.text as it arrived
  text,       \* handle_message: text, the stripped message text
  rows,       \* the result of parse_message: [list, items]
  i,          \* add_transaction: index of the next row of the loop
  now,        \* add_transaction: the timestamp string
  replies,    \* the reply_text calls made for the message, in order
  escaped,    \* an exception left handle_message
  msgs,       \* messages received so far
  base,       \* Len(sheet) when the message was received
  nExtract,   \* calls of parse_message for the message
  nAppend,    \* calls of sheet.append_row for the message
  nScan,      \* calls of sheet.get_all_records for the message
  storeFailed \* a store call (get_sheet, get_all_records, append_row) raised

vars ==
  <<sheet, clock, pc, authorized, inbound, text, rows, i, now, replies, escaped,
    msgs, base, nExtract, nAppend, nScan, storeFailed>>

NoRows == [list |-> TRUE, items |-> <<>>]

Init ==
  /\ sheet = <<>>
  /\ clock = 1
  /\ pc = "idle"
  /\ authorized = TRUE
  /\ inbound = <<>>
  /\ text = <<>>
  /\ rows = NoRows
  /\ i = 0
  /\ now = <<>>
  /\ replies = <<>>
  /\ escaped = FALSE
  /\ msgs = 0
  /\ base = 0
  /\ nExtract = 0
  /\ nAppend = 0
  /\ nScan = 0
  /\ storeFailed = FALSE

\* the handler returns; the last values of its locals stay readable until the
\* next message replaces them
Return ==
  /\ pc' = "idle"
  /\ UNCHANGED <<rows, i, now>>

\* a message arrives; handle_message returns at once unless it is from MY_CHAT_ID
Receive(t, auth, c) ==
  /\ pc = "idle"
  /\ msgs < MaxMsgs
  /\ msgs' = msgs + 1
  /\ clock' = c
  /\ authorized' = auth
  /\ inbound' = t
  /\ text' = IF auth THEN Strip(t) ELSE <<>>
  /\ replies' = <<>>
  /\ escaped' = FALSE
  /\ base' = Len(sheet)
  /\ nExtract' = 0
  /\ nAppend' = 0
  /\ nScan' = 0
  /\ storeFailed' = FALSE
  /\ rows' = NoRows
  /\ i' = 0
  /\ now' = <<>>
  /\ pc' = IF auth THEN "routed" ELSE "idle"
  /\ UNCHANGED sheet

\* send_stats: get_month_stats and the reply, or the error reply when the
\* store fails (get_sheet or get_all_records raises)
SendStats(storeOk) ==
  /\ pc = "routed"
  /\ Route(text) = "stats"
  /\ nScan' = nScan + 1
  /\ storeFailed' = ~storeOk
  /\ replies' = Append(replies,
                  IF storeOk THEN StatsReply(get_month_stats(sheet, Clock[clock]))
                  ELSE PlainReply("stats_error"))
  /\ Return
  /\ UNCHANGED <<sheet, clock, authorized, inbound, text, escaped, msgs, base, nExtract, nAppend>>

\* send_debts: no try around the store calls, so a store failure leaves the handler
SendDebts(storeOk) ==
  /\ pc = "routed"
  /\ Route(text) = "debts"
  /\ nScan' = nScan + 1
  /\ storeFailed' = ~storeOk
  /\ IF storeOk
     THEN /\ replies' = Append(replies, DebtsReply(DebtLedger(sheet)))
          /\ escaped' = escaped
     ELSE /\ replies' = replies
          /\ escaped' = TRUE
  /\ Return
  /\ UNCHANGED <<sheet, clock, authorized, inbound, text, msgs, base, nExtract, nAppend>>

SendHelp ==
  /\ pc = "routed"
  /\ Route(text) = "help"
  /\ replies' = Append(replies, PlainReply("help"))
  /\ Return
  /\ UNCHANGED <<sheet, clock, authorized, inbound, text, escaped, msgs, base, nExtract, nAppend, nScan,
                 storeFailed>>

\* free text: the "recording..." reply that opens the try block
ReplyWait ==
  /\ pc = "routed"
  /\ Route(text) = "free"
  /\ replies' = Append(replies, PlainReply("wait"))
  /\ pc' = "parse"
  /\ UNCHANGED <<sheet, clock, authorized, inbound, text, rows, i, now, escaped, msgs, base,
                 nExtract, nAppend, nScan,
                 storeFailed>>

\* parse_message raises (the service fails, or json.loads rejects the content)
ParseRaises ==
  /\ pc = "parse"
  /\ nExtract' = nExtract + 1
  /\ pc' = "except"
  /\ UNCHANGED <<sheet, clock, authorized, inbound, text, rows, i, now, replies, escaped, msgs,
                 base, nAppend, nScan,
                 storeFailed>>

\* parse_message returns what json.loads gave: a list of objects, or a single
\* object (a dict) when the service did not wrap its answer in an array
ParseReturns(isList, items) ==
  /\ pc = "parse"
  /\ isList \/ Len(items) = 1
  /\ Len(sheet) + Len(items) <= MaxSheet
  /\ nExtract' = nExtract + 1
  /\ rows' = [list |-> isList, items |-> items]
  /\ pc' = "add"
  /\ UNCHANGED <<sheet, clock, authorized, inbound, text, i, now, replies, escaped, msgs, base,
                 nAppend, nScan,
                 storeFailed>>

\* add_transaction up to the loop: get_sheet, which may raise, and the timestamp
OpenSheet(storeOk) ==
  /\ pc = "add"
  /\ IF storeOk
     THEN /\ now' = FmtTimestamp(Clock[clock])
          /\ i' = 1
          /\ pc' = "loop"
     ELSE /\ pc' = "except"
          /\ UNCHANGED <<now, i>>
  /\ storeFailed' = ~storeOk
  /\ UNCHANGED <<sheet, clock, authorized, inbound, text, rows, replies, escaped, msgs, base,
                 nExtract, nAppend, nScan>>

\* len(rows): of a dict, the number of its keys
RowsLen(r) == IF r.list THEN Len(r.items) ELSE Cardinality(r.items[1].keys)

\* one iteration of the loop of add_transaction.  Iterating a dict yields its
\* keys, and str has no get: AttributeError before anything is appended.
AppendRow(storeOk) ==
  /\ pc = "loop"
  /\ i <= RowsLen(rows)
  /\ IF ~rows.list
     THEN /\ pc' = "except"
          /\ UNCHANGED <<sheet, i, nAppend, storeFailed>>
     ELSE /\ nAppend' = nAppend + 1
          /\ storeFailed' = ~storeOk
          /\ IF storeOk
             THEN /\ sheet' = Append(sheet, NewRow(rows.items[i], now))
                  /\ i' = i + 1
                  /\ pc' = pc
             ELSE /\ pc' = "except"
                  /\ UNCHANGED <<sheet, i>>
  /\ UNCHANGED <<clock, authorized, inbound, text, rows, now, replies, escaped, msgs, base,
                 nExtract, nScan>>

\* after add_transaction: the confirmation is built and sent, unless building
\* it raises
Confirm ==
  /\ pc = "loop"
  /\ i > RowsLen(rows)
  /\ LET c == Confirmation(IF rows.list THEN rows.items ELSE <<>>)
     IN  IF c.ok
         THEN /\ replies' = Append(replies, c.msg)
              /\ Return
         ELSE /\ pc' = "except"
              /\ UNCHANGED <<replies, rows, i, now>>
  /\ UNCHANGED <<sheet, clock, authorized, inbound, text, escaped, msgs, base, nExtract,
                 nAppend, nScan,
                 storeFailed>>

\* except Exception: the error reply with the examples
ErrorReply ==
  /\ pc = "except"
  /\ replies' = Append(replies, PlainReply("parse_error"))
  /\ Return
  /\ UNCHANGED <<sheet, clock, authorized, inbound, text, escaped, msgs, base, nExtract,
                 nAppend, nScan,
                 storeFailed>>

Next ==
  \/ \E t \in Texts, auth \in BOOLEAN, c \in clock..Len(Clock) : Receive(t, auth, c)
  \/ \E ok \in BOOLEAN : SendStats(ok)
  \/ \E ok \in BOOLEAN : SendDebts(ok)
  \/ SendHelp
  \/ ReplyWait
  \/ ParseRaises
  \/ \E items \in SeqsUpTo(Objects, MaxBatch) : ParseReturns(TRUE, items)
  \/ \E o \in Objects : ParseReturns(FALSE, <<o>>)
  \/ \E ok \in BOOLEAN : OpenSheet(ok)
  \/ \E ok \in BOOLEAN : AppendRow(ok)
  \/ Confirm
  \/ ErrorReply

Spec == Init /\ [][Next]_vars

(***************************************************************************)
(* The aggregations over an arbitrary worksheet.  The worksheet is an      *)
(* external spreadsheet: its rows may be older than the bot or edited by   *)
(* hand, so a scan may return any strings.  InitAgg draws the worksheet    *)
(* from a bounded set of such rows; the actions are the two queries.       *)
(***************************************************************************)
Row(date, type, amount, category, description) ==
  [Date |-> date, Type |-> type, Amount |-> amount, Category |-> category,
   Description |-> description]

D_nov      == FmtTimestamp(Clock[1])
D_dec      == FmtTimestamp(Clock[2])
D_dateonly == <<"3","0",".","1","1",".","2","0","2","6">>
D_garbage  == <<"g","a","r","b","a","g","e">>

A_100   == <<"1","0","0">>
A_40    == <<"4","0">>
A_sep   == <<"1"," ","2","3","4",",","5","0">>
A_abc   == <<"a","b","c">>

N_Ali == <<"A","l","i">>
N_Bob == <<"B","o","b">>

AggRows ==
  { Row(D_nov, W_rashod, A_100, W_eda, <<"m","o","l","o","k","o">>),
    Row(D_nov, <<"R","a","s","h","o","d">>, A_sep, W_eda, <<>>),
    Row(D_nov, W_rashod, A_40, W_drugoe, <<>>),
    Row(D_nov, W_rashod, A_abc, W_eda, <<>>),
    Row(D_dec, W_rashod, A_100, W_eda, <<>>),
    Row(<<>>, W_rashod, A_100, W_eda, <<>>),
    Row(D_garbage, W_rashod, A_100, W_eda, <<>>),
    Row(D_dateonly, W_rashod, A_100, W_eda, <<>>),
    Row(D_nov, W_dohod, A_sep, W_drugoe, <<>>),
    Row(D_nov, W_dolg, A_100, W_dolg_vydal, N_Ali),
    Row(D_dec, <<"D","o","l","g">>, A_40, W_dolg_poluchil, <<" ">> \o N_Ali \o <<" ">>),
    Row(D_nov, W_dolg, A_100, W_drugoe, N_Ali),
    Row(D_nov, W_dolg, A_abc, W_dolg_vydal, N_Bob),
    Row(D_nov, W_dolg, A_100, W_dolg_vydal, <<>>),
    Row(D_nov, <<"p","e","r","e","v","o","d">>, A_100, W_eda, N_Ali) }

QueryTexts == {t \in Texts : Route(t) \in {"stats", "debts"}}

InitAgg ==
  /\ sheet \in SeqsUpTo(AggRows, MaxRecs)
  /\ clock = 1
  /\ pc = "idle"
  /\ authorized = TRUE
  /\ inbound = <<>>
  /\ text = <<>>
  /\ rows = NoRows
  /\ i = 0
  /\ now = <<>>
  /\ replies = <<>>
  /\ escaped = FALSE
  /\ msgs = 0
  /\ base = Len(sheet)
  /\ nExtract = 0
  /\ nAppend = 0
  /\ nScan = 0
  /\ storeFailed = FALSE

NextAgg ==
  \/ \E t \in QueryTexts, c \in clock..Len(Clock) :
       msgs < MaxQueries /\ Receive(t, TRUE, c)
  \/ \E ok \in BOOLEAN : SendStats(ok)
  \/ \E ok \in BOOLEAN : SendDebts(ok)

SpecAgg == InitAgg /\ [][NextAgg]_vars

(***************************************************************************)
(* Properties of the write path and of the dispatcher (under Spec).        *)
(***************************************************************************)
\* the handling of a message of the authorized sender has finished
Finished == pc = "idle" /\ msgs > 0 /\ authorized

\* rows of the current message present in the worksheet
MsgRows == Len(sheet) - base

ReplyKinds == {replies[j].kind : j \in 1..Len(replies)}

LastReply == replies[Len(replies)]

\* the validation rule of the record model: the amount, coerced like a
\* scanned amount, is not numeric or is negative
BadAmount(o) ==
  /\ "summa" \in o.keys
  /\ LET a == ParseAmount(o.summa) IN ~a.ok \/ a.v < 0

\* t is one of the keywords K once surrounding whitespace is dropped and
\* letters are compared without case
IsKeyword(t, K) ==
  \E k \in K : \E a \in 0..Len(t) :
    /\ a + Len(k) <= Len(t)
    /\ \A j \in 1..a : t[j] \in Whitespace
    /\ \A j \in (a + Len(k) + 1)..Len(t) : t[j] \in Whitespace
    /\ \A j \in 1..Len(k) : LowerChar(t[a + j]) = k[j]

\* the route the dispatcher is to take for the message text t
ExpectedRoute(t) ==
  IF IsKeyword(t, StatsKeywords) THEN "stats"
  ELSE IF IsKeyword(t, DebtsKeywords) THEN "debts"
  ELSE IF IsKeyword(t, HelpKeywords) THEN "help"
  ELSE "free"

\* C1: when the extracted list holds a candidate whose amount is not numeric
\* or is negative, append is never called for the message and none of its
\* rows is persisted.
C1_NoAppendOnInvalidBatch ==
  (rows.list /\ \E j \in 1..Len(rows.items) : BadAmount(rows.items[j]))
    => (nAppend = 0 /\ MsgRows = 0)

\* C2: once a free-text message with N extracted records is handled, the
\* worksheet holds N of its rows or none, whatever failed on the way.
C2_AllOrNone ==
  (Finished /\ ExpectedRoute(inbound) = "free" /\ rows.list)
    => MsgRows \in {0, Len(rows.items)}

\* C3: every message of the authorized sender, on every route and for every
\* outcome of the extraction and of the store, ends in a reply (the result
\* or one error reply); no failure leaves the handler without a reply.
C3_EveryMessageReplied ==
  Finished =>
    /\ ~escaped
    /\ replies # <<>>
    /\ Cardinality({j \in 1..Len(replies) :
                      replies[j].kind \in {"parse_error", "stats_error"}}) <= 1

\* C4: when the scan of the store fails during the stats query or the debts
\* query, the user gets the "no data" form of the report: the zero-filled
\* totals with the no-data placeholder, respectively the no-debts reply.
C4_ReadFailureDegrades ==
  (Finished /\ storeFailed) =>
    /\ ExpectedRoute(inbound) = "stats" =>
         replies = <<StatsReply(get_month_stats(<<>>, Clock[clock]))>>
    /\ ExpectedRoute(inbound) = "debts" =>
         (~escaped /\ replies = <<PlainReply("no_debts")>>)

\* C5: the dispatcher takes exactly one route per message, fixed by the text
\* (trimmed, compared without case) alone: stats keywords, else debts
\* keywords, else help keywords, else extraction and append.  A keyword
\* message never calls the extraction service and never appends; free text
\* never runs an aggregation; an earlier message changes none of this.
C5_OneRoutePerMessage ==
  LET e == ExpectedRoute(inbound)
  IN  /\ (msgs > 0 /\ ~authorized) =>
           (pc = "idle" /\ replies = <<>> /\ nExtract = 0 /\ nAppend = 0 /\ nScan = 0)
      /\ (msgs > 0 /\ authorized) =>
           /\ e # "free" =>
                (nExtract = 0 /\ nAppend = 0 /\ MsgRows = 0 /\ pc \in {"routed", "idle"})
           /\ e = "free" =>
                (nScan = 0 /\ ReplyKinds \subseteq
                                {"wait", "recorded_one", "recorded_many", "parse_error"})
           /\ e = "stats" => ReplyKinds \subseteq {"stats", "stats_error"}
           /\ e = "debts" => ReplyKinds \subseteq {"no_debts", "debts", "all_settled"}
           /\ e = "help" => (nScan = 0 /\ ReplyKinds \subseteq {"help"})
           /\ pc = "idle" =>
                /\ e = "stats" => (nScan = 1 /\ Len(replies) = 1)
                /\ e = "debts" => (nScan = 1 /\ Len(replies) <= 1)
                /\ e = "help" => replies = <<PlainReply("help")>>
                /\ e = "free" => (nExtract = 1 /\ replies[1].kind = "wait")

\* a keyword written with capitals and surrounding whitespace is answered by
\* the stats route as the second message, after a free-text message that
\* appended rows
C5_Witness ==
  /\ Finished
  /\ msgs = 2
  /\ Len(sheet) > 0
  /\ inbound # Lower(Strip(inbound))
  /\ ExpectedRoute(inbound) = "stats"
  /\ replies # <<>> /\ replies[1].kind = "stats"
  /\ replies[1].lines # <<>>

\* C6: every row the bot persisted has a numeric amount >= 0 and a timestamp,
\* and a row of kind debt has one of the two debt categories.
C6_LedgerInvariant ==
  \A j \in 1..Len(sheet) :
    LET r == sheet[j]
        a == ParseAmount(r.Amount)
    IN  /\ a.ok /\ a.v >= 0
        /\ r.Date # <<>>
        /\ r.Type = W_dolg => r.Category \in {W_dolg_vydal, W_dolg_poluchil}

\* C7: a free-text message whose candidates all have a parseable amount, some
\* lacking kind, category or description, is accepted: the records are
\* persisted with the defaults and the user gets the confirmation, not the
\* error reply.
C7_MissingOptionalAccepted ==
  ( /\ Finished
    /\ rows.list /\ rows.items # <<>>
    /\ ~storeFailed
    /\ \A j \in 1..Len(rows.items) :
         "summa" \in rows.items[j].keys /\ IntAmount(rows.items[j]).ok
    /\ \E j \in 1..Len(rows.items) : rows.items[j].keys # AllKeys )
    => /\ MsgRows = Len(rows.items)
       /\ \A j \in 1..Len(rows.items) :
            LET o == rows.items[j]
                r == sheet[base + j]
            IN  /\ "tip" \notin o.keys => r.Type = W_rashod
                /\ "kategoria" \notin o.keys => r.Category = W_drugoe
                /\ "opisanie" \notin o.keys => r.Description = <<>>
       /\ LastReply.kind \in {"recorded_one", "recorded_many"}

(***************************************************************************)
(* Properties of the aggregations (under SpecAgg).                         *)
(***************************************************************************)
RemoveAt(s, j) == SubSeq(s, 1, j - 1) \o SubSeq(s, j + 1, Len(s))

DebtCategories == {W_dolg_vydal, W_dolg_poluchil}

\* a query of the given route was answered from a scan that succeeded
Answered(route) == Finished /\ ExpectedRoute(inbound) = route /\ ~storeFailed

\* the amount of a scanned row as a number; 0 where it does not parse
AmountOr0(r) == LET a == ParseAmount(r.Amount) IN IF a.ok THEN a.v ELSE 0

AmountParses(r) == ParseAmount(r.Amount).ok

\* sum of the amounts of the rows of recs whose index is in S
RECURSIVE SumAmounts(_, _)
SumAmounts(recs, S) ==
  IF S = {} THEN 0
  ELSE LET j == CHOOSE x \in S : TRUE
       IN  AmountOr0(recs[j]) + SumAmounts(recs, S \ {j})

RECURSIVE SumValues(_)
SumValues(d) == IF d = <<>> THEN 0 ELSE Head(d).v + SumValues(Tail(d))

KeysDistinct(d) == \A a, b \in 1..Len(d) : d[a].k = d[b].k => a = b

\* a debt row that takes part in the debt ledger
IsDebtRow(r) == Lower(r.Type) = W_dolg /\ r.Description # <<>>

NotOtherCategoryDebt(r) == ~(IsDebtRow(r) /\ r.Category \notin DebtCategories)

\* the mapping of the claim: for each counterparty the given minus the received
LedgerIsNetOf(d, recs) ==
  LET part == {j \in 1..Len(recs) :
                 IsDebtRow(recs[j]) /\ recs[j].Category \in DebtCategories}
      of(k, cat) == {j \in part : Strip(recs[j].Description) = k /\ recs[j].Category = cat}
  IN  /\ KeysDistinct(d)
      /\ {d[a].k : a \in 1..Len(d)} = {Strip(recs[j].Description) : j \in part}
      /\ \A a \in 1..Len(d) :
           d[a].v = SumAmounts(recs, of(d[a].k, W_dolg_vydal))
                      - SumAmounts(recs, of(d[a].k, W_dolg_poluchil))

\* C8: the debt ledger maps each counterparty (the trimmed description) to its
\* given minus its received amounts; only debt rows with a description take
\* part, and a debt row of another category is ignored: mapping and reply
\* are those of the scan without that row.
C8_DebtLedgerExact ==
  Answered("debts") =>
    /\ LedgerIsNetOf(DebtLedger(sheet), sheet)
    /\ DebtLedger(sheet) = DebtLedger(SelectSeq(sheet, NotOtherCategoryDebt))
    /\ replies = <<DebtsReply(DebtLedger(SelectSeq(sheet, NotOtherCategoryDebt)))>>

\* the month/year the Date of a row carries at its fixed offset
MonthOf(r) == IF Len(r.Date) >= 10 THEN SubSeq(r.Date, 4, 10) ELSE <<>>

\* the rows a monthly report counts: the month matches, the amount parses
Counted(recs, month) ==
  {j \in 1..Len(recs) : MonthOf(recs[j]) = month /\ AmountParses(recs[j])}

\* the totals st are the sums, per kind and category, over the counted rows
StatsAreSumsOf(st, recs, month) ==
  LET cnt == Counted(recs, month)
      E   == {j \in cnt : Lower(recs[j].Type) = W_rashod}
      I   == {j \in cnt : Lower(recs[j].Type) = W_dohod}
      D(cat) == {j \in cnt : Lower(recs[j].Type) = W_dolg /\ recs[j].Category = cat}
  IN  /\ st.expense = SumAmounts(recs, E)
      /\ st.income = SumAmounts(recs, I)
      /\ st.debts_given = SumAmounts(recs, D(W_dolg_vydal))
      /\ st.debts_received = SumAmounts(recs, D(W_dolg_poluchil))
      /\ KeysDistinct(st.categories)
      /\ {st.categories[a].k : a \in 1..Len(st.categories)} = {recs[j].Category : j \in E}
      /\ \A a \in 1..Len(st.categories) :
           st.categories[a].v =
             SumAmounts(recs, {j \in E : recs[j].Category = st.categories[a].k})
      /\ st.expense = SumValues(st.categories)

DateParses(d) ==
  /\ Len(d) = 16
  /\ \A p \in {1, 2, 4, 5, 7, 8, 9, 10, 12, 13, 15, 16} : IsDigit(d[p])
  /\ d[3] = "." /\ d[6] = "." /\ d[11] = " " /\ d[14] = ":"

HasParseableDate(r) == DateParses(r.Date)

C10_BadAmountRowSkipped ==
  LET good == SelectSeq(sheet, AmountParses)
  IN  /\ Answered("stats") =>
           replies = <<StatsReply(get_month_stats(good, Clock[clock]))>>
      /\ Answered("debts") =>
           /\ DebtLedger(sheet) = DebtLedger(good)
           /\ replies = <<DebtsReply(DebtLedger(good))>>

=============================================================================
